---- MODULE Spec2Model ----
(***************************************************************************)
(* A model of the iiko SDK client: TokenStorage, HTTPClient, AuthManager   *)
(* and the IikoSDK facade, together with the remote server they talk to.   *)
(* Times are wall-clock milliseconds.  A token string is a positive        *)
(* number, Python's None is None and the empty string is EmptyStr.         *)
(***************************************************************************)
EXTENDS Integers, Sequences, FiniteSets, TLC

\* ------------------------------------------------------------------ bounds
MaxTime == 200          \* the clock is explored up to this instant
MaxTokens == 2          \* the server issues at most this many tokens
MaxRetries == 3         \* settings.max_retries is explored from 0 up to this
MaxLen == 2             \* a token string has at most this many characters
MaxArray == 2           \* a summary array has at most this many entries
MaxWeeks == 3           \* the overall range ends within this many weeks
MaxColumns == 2         \* a column catalog has at most this many columns

\* ------------------------------------------------------- program constants
None == 0               \* Python None
EmptyStr == -1          \* the empty string ""
NoTime == -2            \* _last_request_time is None
MinDelay == 100         \* min_delay = 0.1 s

VARIABLES
    latencies,          \* network: how long an answer can take to arrive
    phase,              \* "new" | "ready" | "failed" : IikoSDK() construction
    now,                \* time.time()
    last_request_time,  \* HTTPClient._last_request_time
    conns_open,         \* the requests.Session holds open connections
    token,              \* AuthManager._token
    file,               \* the token storage file
    scope,              \* "out" | "in" | "raising" : the with-block of the facade
    active,             \* server: tokens of live sessions (license slots in use)
    issued,             \* server: number of tokens issued so far
    last_end,           \* history: the instant the latest request ended
    op,                 \* history: the operation that ran last
    prev_auth,          \* history: the latest authenticate(force=False) call
                        \*   with no logout or invalidation after it
    unreleased,         \* history: tokens acquired and never passed to a logout call
    token_history,      \* history: "never" while no token has been held, then
                        \*   "held", then the operation that last emptied it
    io_failed,          \* history: a storage write or delete has failed
    retry,              \* one call of session.request under the Retry policy
    store,              \* a TokenStorage over a file, character by character
    merge,              \* one call of add_summary_arrays
    chunk,              \* one run of the weekly chunking loop of the sales report
    report,             \* one call of build_report_v2
    catalog             \* one parse of a column catalog payload

vars == << latencies, phase, now, last_request_time, conns_open, token, file, scope,
           active, issued, last_end, op, prev_auth, unreleased,
           token_history, io_failed, retry, store, merge, chunk, report, catalog >>

\* The state of the client, the manager and the facade.
sdkVars == << latencies, phase, now, last_request_time, conns_open, token, file, scope,
              active, issued, last_end, op, prev_auth, unreleased,
              token_history, io_failed >>

\* ------------------------------------------------------------------ values
Truthy(v) == v # None /\ v # EmptyStr

\* Granularity of idle time and of response latency: half the pacing delay.
Step == MinDelay \div 2

\* HTTP status of the final response; 0 stands for no response at all
\* (timeout, connection failure, retries exhausted).
Statuses == {0, 200, 204, 401}

\* The verbs the facade exposes.
Methods == {"GET", "POST"}

\* A response body is a token (or nothing) possibly surrounded by whitespace:
\* [pad, tok].

NoBody == [pad |-> FALSE, tok |-> EmptyStr]

\* str.strip(): the surrounding whitespace is dropped.
strip(body) == body.tok

AbsentFile == [kind |-> "absent", token |-> None]

\* The storage file: absent, a JSON record with a token field, text that is
\* not JSON, JSON that is not an object, or a file that cannot be opened.
RecordFile(t) == [kind |-> "record", token |-> t]

GarbageFile == [kind |-> "garbage", token |-> None]

NonObjectFile == [kind |-> "nonobject", token |-> None]

UnreadableFile == [kind |-> "unreadable", token |-> None]

\* What the file can hold when the program starts.
InitFiles == { AbsentFile, RecordFile(1), GarbageFile, NonObjectFile }

\* The state an operation works on: the program's fields, the server, and
\* what the operation has done so far (requests made, last response,
\* exception raised, value returned).
Cur == [ latencies |-> latencies,
         now |-> now, last |-> last_request_time, open |-> conns_open,
         token |-> token, file |-> file, active |-> active, issued |-> issued,
         log |-> << >>, resp |-> [status |-> 0, body |-> NoBody],
         exc |-> "none", ret |-> None, valid |-> FALSE, ioerr |-> FALSE ]

\* Every operation below yields the set of states it can end in: one per
\* answer of the server, latency of the network and outcome of the file I/O.

\* ------------------------------------------------------------ remote server
\* The responses the server can give to a request in state s.
ServerAnswers(s, kind, key) ==
    CASE kind = "auth" ->
            {[status |-> st, body |-> NoBody] : st \in {0, 204, 401}}
            \cup {[status |-> 200, body |-> [pad |-> p, tok |-> EmptyStr]] : p \in BOOLEAN}
            \cup {[status |-> 200, body |-> [pad |-> p, tok |-> s.issued + 1]] :
                      p \in {q \in BOOLEAN : s.issued < MaxTokens}}
      [] key # None /\ key \notin s.active ->
            {[status |-> st, body |-> NoBody] : st \in {0, 401}}
      [] OTHER ->
            {[status |-> st, body |-> NoBody] : st \in Statuses}

\* What the request changes on the server.  A session ends when its logout
\* call is answered; it can also end on the server's side (expiry, an
\* administrator), which shows as status 401 on the next call with its key.
ServerHandle(s, kind, key, resp) ==
    CASE kind = "auth" /\ resp.status = 200 /\ Truthy(resp.body.tok) ->
            [s EXCEPT !.active = @ \cup {resp.body.tok}, !.issued = resp.body.tok]
      [] kind = "logout" /\ resp.status \in {200, 204} ->
            [s EXCEPT !.active = @ \ {key}]
      [] kind # "auth" /\ resp.status = 401 ->
            [s EXCEPT !.active = @ \ {key}]
      [] OTHER -> s

\* ---------------------------------------------------------------- HTTPClient
\* time.sleep(min_delay - elapsed) when the last request ended less than
\* min_delay ago.
HTTPClient_ensure_sequential_requests(s) ==
    IF s.last # NoTime
    THEN LET elapsed == s.now - s.last
         IN  IF elapsed < MinDelay
             THEN [s EXCEPT !.now = @ + (MinDelay - elapsed)]
             ELSE s
    ELSE s

\* response.raise_for_status()
raise_for_status(status) == status >= 400 /\ status < 600

\* (a variant that records the time only when the request succeeded)
HTTPClient_finally_on_success(s) ==
    IF s.exc = "none" THEN [s EXCEPT !.last = s.now] ELSE s

\* finally: self._last_request_time = time.time()
HTTPClient_finally(s) == [s EXCEPT !.last = s.now]

\* One exchange with the server: it starts at s.now, the answer resp comes
\* d later; no answer at all or an error status raises RequestException.
Exchange(s, method, kind, key, d, resp) ==
    LET raised == resp.status = 0 \/ raise_for_status(resp.status)
        entry == [ kind |-> kind, method |-> method, key |-> key,
                   start |-> s.now, end |-> s.now + d,
                   status |-> resp.status, pad |-> resp.body.pad,
                   tok |-> resp.body.tok ]
    IN  [ServerHandle(s, kind, key, resp) EXCEPT
             !.now = @ + d,
             !.open = TRUE,
             !.log = Append(@, entry),
             !.resp = resp,
             !.exc = IF raised THEN "RequestException" ELSE "none"]

\* HTTPClient.request: pace, send, raise on an error status, and in every
\* case record the time the request ended.
HTTPClient_request(s, method, kind, key) ==
    LET s1 == HTTPClient_ensure_sequential_requests(s)
    IN  { HTTPClient_finally(Exchange(s1, method, kind, key, d, resp)) :
              d \in s.latencies, resp \in ServerAnswers(s1, kind, key) }

HTTPClient_get(s, kind, key) == HTTPClient_request(s, "GET", kind, key)

HTTPClient_post(s, kind, key) == HTTPClient_request(s, "POST", kind, key)

\* session.close()
HTTPClient_close(s) == [s EXCEPT !.open = FALSE]

\* -------------------------------------------------------------- TokenStorage
\* (a variant that lets the OSError of a failed write escape)
TokenStorage_save_raising(s, t) ==
    { [s EXCEPT !.file = RecordFile(t)],
      [s EXCEPT !.ioerr = TRUE, !.exc = "OSError"],
      [s EXCEPT !.file = GarbageFile, !.ioerr = TRUE, !.exc = "OSError"] }

\* open(path, "w") and json.dump; an OSError is logged and swallowed.  A
\* failed open leaves the file as it was, a failed write leaves it truncated.
TokenStorage_save(s, t) ==
    { [s EXCEPT !.file = RecordFile(t)],
      [s EXCEPT !.ioerr = TRUE],
      [s EXCEPT !.file = GarbageFile, !.ioerr = TRUE] }

\* What load() does: the value it returns, or the exception it lets escape
\* (data.get on JSON that is not an object).
TokenStorage_load(f) ==
    CASE f.kind = "absent" -> [exc |-> "none", ret |-> None]
      [] f.kind = "unreadable" -> [exc |-> "none", ret |-> None]
      [] f.kind = "garbage" -> [exc |-> "none", ret |-> None]
      [] f.kind = "nonobject" -> [exc |-> "AttributeError", ret |-> None]
      [] OTHER -> [exc |-> "none",
                   ret |-> IF Truthy(f.token) THEN f.token ELSE None]

\* unlink when the file exists; an OSError is logged and swallowed.
TokenStorage_clear(s) ==
    IF s.file.kind # "absent"
    THEN { [s EXCEPT !.file = AbsentFile], [s EXCEPT !.ioerr = TRUE] }
    ELSE {s}

\* --------------------------------------------------------------- AuthManager
\* (a variant that never takes over the stored token)
AuthManager_load_saved_token_skipped(f) == None

\* _load_saved_token: the stored token, when load() returns a truthy one.
AuthManager_load_saved_token(f) ==
    LET saved_token == TokenStorage_load(f).ret
    IN  IF Truthy(saved_token) THEN saved_token ELSE None

\* (a variant that gives up the held token when the login call fails)
AuthManager_take_token_dropping(s1) ==
    LET tok == strip(s1.resp.body)
    IN  IF s1.exc # "none"
        THEN {[s1 EXCEPT !.token = None]}
        ELSE IF ~Truthy(tok)
             THEN {[s1 EXCEPT !.exc = "ValueError"]}
             ELSE TokenStorage_save([s1 EXCEPT !.token = tok, !.ret = tok], tok)

\* (a variant that assigns the token before it checks it)
AuthManager_take_token_unchecked(s1) ==
    LET tok == strip(s1.resp.body)
    IN  IF s1.exc # "none"
        THEN {s1}
        ELSE IF ~Truthy(tok)
             THEN {[s1 EXCEPT !.token = tok, !.exc = "ValueError"]}
             ELSE TokenStorage_save([s1 EXCEPT !.token = tok, !.ret = tok], tok)

\* (a variant that keeps the new token in memory only)
AuthManager_take_token_unsaved(s1) ==
    LET tok == strip(s1.resp.body)
    IN  IF s1.exc # "none"
        THEN {s1}
        ELSE IF ~Truthy(tok)
             THEN {[s1 EXCEPT !.exc = "ValueError"]}
             ELSE {[s1 EXCEPT !.token = tok, !.ret = tok]}

\* authenticate, after the login call has returned or raised: a
\* RequestException is re-raised, an empty stripped body raises ValueError,
\* anything else becomes the token and is saved.
AuthManager_take_token(s1) ==
    LET tok == strip(s1.resp.body)
    IN  IF s1.exc # "none"
        THEN {s1}
        ELSE IF ~Truthy(tok)
             THEN {[s1 EXCEPT !.exc = "ValueError"]}
             ELSE TokenStorage_save([s1 EXCEPT !.token = tok, !.ret = tok], tok)

\* (a variant that logs in on every call)
AuthManager_authenticate_uncached(s, force) ==
    UNION { AuthManager_take_token(s1) : s1 \in HTTPClient_post(s, "auth", None) }

\* (a variant that returns the cached token also when forced)
AuthManager_authenticate_unforced(s, force) ==
    IF Truthy(s.token)
    THEN {[s EXCEPT !.ret = s.token]}
    ELSE UNION { AuthManager_take_token(s1) : s1 \in HTTPClient_post(s, "auth", None) }

\* authenticate(force): the cached token unless forced, otherwise one login.
AuthManager_authenticate(s, force) ==
    IF Truthy(s.token) /\ ~force
    THEN {[s EXCEPT !.ret = s.token]}
    ELSE UNION { AuthManager_take_token(s1) : s1 \in HTTPClient_post(s, "auth", None) }

\* (a variant without the finally block: a failed logout call clears nothing)
AuthManager_logout_no_finally(s) ==
    IF ~Truthy(s.token)
    THEN {s}
    ELSE UNION { IF s1.exc # "none"
                 THEN {[s1 EXCEPT !.exc = "none"]}
                 ELSE TokenStorage_clear([s1 EXCEPT !.token = None]) :
                     s1 \in HTTPClient_get(s, "logout", s.token) }

\* (a variant that deletes the storage file also when no token is held)
AuthManager_logout_always_clearing(s) ==
    IF ~Truthy(s.token)
    THEN TokenStorage_clear(s)
    ELSE UNION { TokenStorage_clear([s1 EXCEPT !.exc = "none", !.token = None]) :
                     s1 \in HTTPClient_get(s, "logout", s.token) }

\* logout(): nothing without a token; otherwise one logout call whose
\* RequestException is swallowed, then (finally) both copies are cleared.
AuthManager_logout(s) ==
    IF ~Truthy(s.token)
    THEN {s}
    ELSE UNION { TokenStorage_clear([s1 EXCEPT !.exc = "none", !.token = None]) :
                     s1 \in HTTPClient_get(s, "logout", s.token) }

\* (a variant that logs in whether or not a token is held)
AuthManager_get_token_eager(s) == AuthManager_authenticate(s, TRUE)

\* get_token(): authenticate() when no token is held.
AuthManager_get_token(s) ==
    IF ~Truthy(s.token)
    THEN AuthManager_authenticate(s, FALSE)
    ELSE {[s EXCEPT !.ret = s.token]}

\* (a variant that accepts every answer that did not raise)
AuthManager_validate_token_any_success(s) ==
    IF ~Truthy(s.token)
    THEN {[s EXCEPT !.valid = FALSE]}
    ELSE { IF s1.exc # "none"
           THEN [s1 EXCEPT !.exc = "none", !.valid = FALSE]
           ELSE [s1 EXCEPT !.valid = TRUE] :
               s1 \in HTTPClient_get(s, "probe", s.token) }

\* validate_token(): one probe call; True only for status 200, False for
\* any RequestException and without a token.
AuthManager_validate_token(s) ==
    IF ~Truthy(s.token)
    THEN {[s EXCEPT !.valid = FALSE]}
    ELSE { IF s1.exc # "none"
           THEN [s1 EXCEPT !.exc = "none", !.valid = FALSE]
           ELSE [s1 EXCEPT !.valid = (s1.resp.status = 200)] :
               s1 \in HTTPClient_get(s, "probe", s.token) }

\* (a variant that keeps the token in memory when validation has failed)
AuthManager_refresh_if_needed_keeping(s) ==
    UNION { IF ~v.valid
            THEN UNION { AuthManager_authenticate(c, FALSE) :
                             c \in TokenStorage_clear(v) }
            ELSE {[v EXCEPT !.ret = v.token]} :
                v \in AuthManager_validate_token(s) }

\* refresh_if_needed(): after a failed validation both copies are cleared
\* and authenticate() runs.
AuthManager_refresh_if_needed(s) ==
    UNION { IF ~v.valid
            THEN UNION { AuthManager_authenticate(c, FALSE) :
                             c \in TokenStorage_clear([v EXCEPT !.token = None]) }
            ELSE {[v EXCEPT !.ret = v.token]} :
                v \in AuthManager_validate_token(s) }

\* ------------------------------------------------------------------- IikoSDK
\* (a variant that never adds the key parameter)
IikoSDK_request_no_key(s, method, authenticated) ==
    IF authenticated
    THEN UNION { IF s1.exc # "none"
                 THEN {s1}
                 ELSE HTTPClient_request(s1, method, "api", None) :
                     s1 \in AuthManager_get_token(s) }
    ELSE HTTPClient_request(s, method, "api", None)

\* request(): with authenticated set, get_token() supplies params["key"].
IikoSDK_request(s, method, authenticated) ==
    IF authenticated
    THEN UNION { IF s1.exc # "none"
                 THEN {s1}
                 ELSE HTTPClient_request(s1, method, "api", s1.ret) :
                     s1 \in AuthManager_get_token(s) }
    ELSE HTTPClient_request(s, method, "api", None)

\* __enter__: self.authenticate()
IikoSDK_enter(s) == AuthManager_authenticate(s, FALSE)

\* (a variant that forgets to close)
IikoSDK_exit_no_close(s) == AuthManager_logout(s)

\* __exit__: self.logout(); self.close()
IikoSDK_exit(s) == { HTTPClient_close(s1) : s1 \in AuthManager_logout(s) }

\* is_authenticated: self._token is not None
is_authenticated == token # None

\* --------------------------------------------------------------- transitions
\* The number of login calls a log holds.
Logins(log) == Cardinality({i \in 1..Len(log) : log[i].kind = "auth"})

NoCall == [ called |-> FALSE, held |-> FALSE, logins |-> 0, exc |-> "none" ]

NoOp == [ name |-> "none", force |-> FALSE, authenticated |-> FALSE,
          pre_token |-> None, pre_file |-> AbsentFile, pre_end |-> NoTime,
          pre_scope |-> "out", log |-> << >>, exc |-> "none", ret |-> None,
          valid |-> FALSE, ioerr |-> FALSE, earlier |-> NoCall ]


\* Tokens the log shows the server handed out, and keys passed to logout calls.
Obtained(log) ==
    {log[i].tok : i \in {j \in 1..Len(log) : /\ log[j].kind = "auth"
                                              /\ log[j].status = 200
                                              /\ Truthy(log[j].tok)}}

LoggedOut(log) ==
    {log[i].key : i \in {j \in 1..Len(log) : log[j].kind = "logout"}}

\* The operation named `name` has taken the state from Cur to r.
Commit(name, force, authenticated, r) ==
    /\ r.now <= MaxTime
    /\ now' = r.now
    /\ last_request_time' = r.last
    /\ conns_open' = r.open
    /\ token' = r.token
    /\ file' = r.file
    /\ active' = r.active
    /\ issued' = r.issued
    /\ last_end' = IF r.log = << >> THEN last_end ELSE r.log[Len(r.log)].end
    /\ op' = [ name |-> name, force |-> force, authenticated |-> authenticated,
               pre_token |-> token, pre_file |-> file, pre_end |-> last_end,
               pre_scope |-> scope, log |-> r.log, exc |-> r.exc, ret |-> r.ret,
               valid |-> r.valid, ioerr |-> r.ioerr, earlier |-> prev_auth ]
    /\ prev_auth' =
           CASE name \in {"authenticate", "enter"} /\ ~force ->
                    [ called |-> TRUE, held |-> Truthy(token),
                      logins |-> Logins(r.log), exc |-> r.exc ]
             [] name \in {"logout", "exit"} -> NoCall
             [] name = "refresh_if_needed" /\ ~r.valid -> NoCall
             [] OTHER -> prev_auth
    /\ unreleased' = (unreleased \ LoggedOut(r.log)) \cup Obtained(r.log)
    /\ token_history' =
           CASE Truthy(token) /\ ~Truthy(r.token) -> name
             [] token_history = "never" /\ Truthy(r.token) -> "held"
             [] OTHER -> token_history
    /\ io_failed' = (io_failed \/ r.ioerr)
    /\ UNCHANGED << retry, store, merge, chunk, report, catalog >>

\* An exception inside the with-block leaves it at once through __exit__.
BodyScope(r) == IF scope = "in" /\ r.exc # "none" THEN "raising" ELSE scope

Usable == phase = "ready" /\ scope \in {"out", "in"}

\* Before IikoSDK() is constructed.
Start ==
    /\ phase = "new"
    /\ now = 0
    /\ last_request_time = NoTime
    /\ conns_open = FALSE
    /\ token = None
    /\ file \in InitFiles
    /\ scope = "out"
    /\ issued = (IF file = RecordFile(1) THEN 1 ELSE 0)
    /\ active = (IF file = RecordFile(1) THEN {1} ELSE {})
    /\ last_end = NoTime
    /\ op = NoOp
    /\ prev_auth = NoCall
    /\ unreleased = {}
    /\ token_history = "never"
    /\ io_failed = FALSE

\* No call under way on the retrying session.
NoRetry == [ method |-> "none", max_retries |-> 0, statuses |-> << >>, done |-> TRUE ]

\* No storage under study.
NoStore == [ step |-> "none" ]

\* No summary arrays, no chunking loop, no report and no catalog under study.
NoMerge == [ step |-> "none" ]

NoChunk == [ pc |-> "none" ]

NoReport == [ step |-> "none" ]

NoCatalog == [ step |-> "none" ]

Init ==
    /\ latencies = {0}
    /\ Start
    /\ retry = NoRetry /\ store = NoStore
    /\ merge = NoMerge /\ chunk = NoChunk /\ report = NoReport /\ catalog = NoCatalog

\* IikoSDK(): HTTPClient(), then AuthManager() which loads the saved token.
Construct ==
    /\ phase = "new"
    /\ LET l == TokenStorage_load(file)
           t == AuthManager_load_saved_token(file)
       IN  IF l.exc # "none"
           THEN /\ phase' = "failed"
                /\ op' = [NoOp EXCEPT !.name = "init", !.exc = l.exc,
                                      !.pre_file = file]
                /\ UNCHANGED << token, unreleased, token_history >>
           ELSE /\ phase' = "ready"
                /\ token' = t
                /\ op' = [NoOp EXCEPT !.name = "init", !.ret = t,
                                      !.pre_file = file]
                /\ unreleased' = (IF Truthy(t) THEN {t} ELSE {})
                /\ token_history' = (IF Truthy(t) THEN "held" ELSE "never")
    /\ UNCHANGED << latencies, now, last_request_time, conns_open, file, scope,
                    active, issued, last_end, prev_auth, io_failed, retry, store,
                    merge, chunk, report, catalog >>

Authenticate ==
    /\ Usable
    /\ \E force \in BOOLEAN : \E r \in AuthManager_authenticate(Cur, force) :
         /\ Commit("authenticate", force, FALSE, r)
         /\ scope' = BodyScope(r)
    /\ UNCHANGED << latencies, phase >>

Logout ==
    /\ Usable
    /\ \E r \in AuthManager_logout(Cur) :
         /\ Commit("logout", FALSE, FALSE, r)
         /\ scope' = BodyScope(r)
    /\ UNCHANGED << latencies, phase >>

ValidateToken ==
    /\ Usable
    /\ \E r \in AuthManager_validate_token(Cur) :
         /\ Commit("validate_token", FALSE, FALSE, r)
         /\ scope' = BodyScope(r)
    /\ UNCHANGED << latencies, phase >>

RefreshIfNeeded ==
    /\ Usable
    /\ \E r \in AuthManager_refresh_if_needed(Cur) :
         /\ Commit("refresh_if_needed", FALSE, FALSE, r)
         /\ scope' = BodyScope(r)
    /\ UNCHANGED << latencies, phase >>

Request ==
    /\ Usable
    /\ \E method \in Methods, authenticated \in BOOLEAN :
         \E r \in IikoSDK_request(Cur, method, authenticated) :
             /\ Commit("request", FALSE, authenticated, r)
             /\ scope' = BodyScope(r)
    /\ UNCHANGED << latencies, phase >>

\* with IikoSDK() as sdk: the block is entered only if __enter__ returns.
EnterScope ==
    /\ phase = "ready"
    /\ scope = "out"
    /\ \E r \in IikoSDK_enter(Cur) :
         /\ Commit("enter", FALSE, FALSE, r)
         /\ scope' = IF r.exc = "none" THEN "in" ELSE "out"
    /\ UNCHANGED << latencies, phase >>

\* The block ends, normally or with an exception of its body.
ExitScope ==
    /\ phase = "ready"
    /\ scope \in {"in", "raising"}
    /\ \E r \in IikoSDK_exit(Cur) :
         /\ Commit("exit", FALSE, FALSE, r)
         /\ scope' = "out"
    /\ UNCHANGED << latencies, phase >>

\* Time passes while the caller does something else.  Only the first
\* MinDelay after a request can make a difference to the next one.
Tick ==
    /\ last_request_time # NoTime
    /\ now - last_request_time < MinDelay
    /\ now + Step <= MaxTime
    /\ now' = now + Step
    /\ UNCHANGED << latencies, phase, last_request_time, conns_open, token, file,
                    scope, active, issued, last_end, op, prev_auth, unreleased,
                    token_history, io_failed, retry, store, merge, chunk, report,
                    catalog >>

Next ==
    \/ Construct
    \/ Authenticate
    \/ Logout
    \/ ValidateToken
    \/ RefreshIfNeeded
    \/ Request
    \/ EnterScope
    \/ ExitScope

\* Calls that follow each other as fast as the pacing allows, answered at once.
Spec == Init /\ [][Next]_vars

\* The same program with a network that can be slow and a caller that can
\* pause between two calls.
InitPacing ==
    /\ latencies = {0, Step}
    /\ Start
    /\ retry = NoRetry /\ store = NoStore
    /\ merge = NoMerge /\ chunk = NoChunk /\ report = NoReport /\ catalog = NoCatalog

NextPacing == Next \/ Tick

SpecPacing == InitPacing /\ [][NextPacing]_vars

\* -------------------------------------------------------- the retry policy
\* Retry(total=max_retries, backoff_factor=1, status_forcelist=[...],
\* allowed_methods=[...]) mounted on the session.
status_forcelist == {429, 500, 502, 503, 504}

allowed_methods == {"HEAD", "GET", "OPTIONS", "POST", "PUT"}

\* The verbs of HTTPClient: get, post, put, delete.
Verbs == {"GET", "POST", "PUT", "DELETE"}

\* Statuses a single attempt can be answered with.
AttemptStatuses == {200, 404} \cup status_forcelist

\* Retry.is_retry: the method is allowed and the status is on the list.
Retry_is_retry(method, status) ==
    method \in allowed_methods /\ status \in status_forcelist

\* The rest of the program stands still while one call is followed.
Parked == latencies = {0} /\ Start /\ file = AbsentFile

InitRetry ==
    /\ Parked
    /\ store = NoStore
    /\ merge = NoMerge /\ chunk = NoChunk /\ report = NoReport /\ catalog = NoCatalog
    /\ retry \in [ method : Verbs, max_retries : 0..MaxRetries,
                    statuses : {<< >>}, done : {FALSE} ]

\* One attempt of the call: it is answered, and the policy decides whether
\* another attempt follows; `total` allows max_retries of them.
Attempt ==
    /\ ~retry.done
    /\ \E status \in AttemptStatuses :
         retry' = [retry EXCEPT
                      !.statuses = Append(@, status),
                      !.done = ~( /\ Retry_is_retry(retry.method, status)
                                  /\ Len(retry.statuses) < retry.max_retries )]
    /\ UNCHANGED << latencies, phase, now, last_request_time, conns_open, token,
                    file, scope, active, issued, last_end, op, prev_auth,
                    unreleased, token_history, io_failed, store, merge, chunk,
                    report, catalog >>

NextRetry == Attempt

SpecRetry == InitRetry /\ [][NextRetry]_vars

\* ------------------------------------------------- the storage file as text
\* The characters a token string is made of: two plain letters, the two
\* characters JSON must escape, a control character and a non-ASCII one.
Chars == {"a", "n", "QUOTE", "BACKSLASH", "NEWLINE", "NONASCII"}

RECURSIVE StringsUpTo(_)
StringsUpTo(k) ==
    IF k = 0
    THEN {<< >>}
    ELSE LET shorter == StringsUpTo(k - 1)
         IN  shorter \cup {Append(s, c) : s \in shorter, c \in Chars}

TokenStrings == StringsUpTo(MaxLen)

\* json.dump of a str (ensure_ascii): what one character is written as.
EscapeChar(c) ==
    CASE c = "QUOTE" -> << "BACKSLASH", "QUOTE" >>
      [] c = "BACKSLASH" -> << "BACKSLASH", "BACKSLASH" >>
      [] c = "NEWLINE" -> << "BACKSLASH", "n" >>
      [] c = "NONASCII" -> << "BACKSLASH", "u00e9" >>
      [] OTHER -> << c >>

RECURSIVE json_dump_str(_)
json_dump_str(s) ==
    IF s = << >> THEN << >> ELSE EscapeChar(Head(s)) \o json_dump_str(Tail(s))

\* json.load of a string literal: what follows a backslash stands for.
UnescapeChar(c) ==
    CASE c = "n" -> "NEWLINE"
      [] c = "u00e9" -> "NONASCII"
      [] OTHER -> c

RECURSIVE json_load_str(_)
json_load_str(text) ==
    IF text = << >>
    THEN << >>
    ELSE IF Head(text) = "BACKSLASH" /\ Len(text) >= 2
         THEN << UnescapeChar(text[2]) >> \o json_load_str(Tail(Tail(text)))
         ELSE << Head(text) >> \o json_load_str(Tail(text))

\* A member of a JSON object: missing, null, or a string literal.
Missing == [has |-> "missing", text |-> << >>]

Null == [has |-> "null", text |-> << >>]

Literal(text) == [has |-> "string", text |-> text]

\* What can be at the storage path: no file, a file that cannot be opened,
\* bytes that are not text in the encoding, text that is not JSON, a JSON
\* value that is not an object, or a JSON object.
PlainFile(kind) == [kind |-> kind, token |-> Missing, created_at |-> Missing]

ObjectFile(tok, created) == [kind |-> "object", token |-> tok, created_at |-> created]

MalformedFiles ==
    {PlainFile(k) : k \in {"absent", "unreadable", "undecodable", "notjson",
                           "array", "string", "number", "null"}}
    \cup {ObjectFile(tok, Missing) : tok \in {Missing, Null, Literal(<< >>)}}

\* datetime.now().isoformat()
Timestamp == Literal(<< "isoformat" >>)

\* What a load() hands back: None, or a str.
NoResult == [none |-> TRUE, str |-> << >>]

Result(s) == [none |-> FALSE, str |-> s]

\* (a variant that writes the token under another key than load() reads)
TokenStorage_save_file_other_key(f, tok, io) ==
    CASE io = "ok" -> ObjectFile(Missing, Timestamp)
      [] io = "open_failed" -> f
      [] OTHER -> PlainFile("notjson")

\* save(token) on the file f: json.dump of {"token", "created_at"}; when
\* open() fails the file stays as it was, when the write fails it is left
\* truncated.  The OSError is logged, not raised.
TokenStorage_save_file(f, tok, io) ==
    CASE io = "ok" -> ObjectFile(Literal(json_dump_str(tok)), Timestamp)
      [] io = "open_failed" -> f
      [] OTHER -> PlainFile("notjson")

\* load() on the file f: OSError and JSONDecodeError are caught; nothing
\* else is.
TokenStorage_load_file(f) ==
    CASE f.kind = "absent" -> [exc |-> "none", ret |-> NoResult]
      [] f.kind = "unreadable" -> [exc |-> "none", ret |-> NoResult]
      [] f.kind = "notjson" -> [exc |-> "none", ret |-> NoResult]
      [] f.kind = "undecodable" -> [exc |-> "UnicodeDecodeError", ret |-> NoResult]
      [] f.kind \in {"array", "string", "number", "null"} ->
            [exc |-> "AttributeError", ret |-> NoResult]
      [] OTHER ->
            LET tok == IF f.token.has = "string"
                       THEN json_load_str(f.token.text)
                       ELSE << >>
            IN  [exc |-> "none",
                 ret |-> IF tok # << >> THEN Result(tok) ELSE NoResult]

InitStorage ==
    /\ Parked
    /\ retry = NoRetry
    /\ merge = NoMerge /\ chunk = NoChunk /\ report = NoReport /\ catalog = NoCatalog
    /\ \E f \in MalformedFiles \cup {ObjectFile(Literal(<< "a" >>), Timestamp)} :
          store = [ step |-> "start", file |-> f, before |-> f, token |-> << >>,
                    io |-> "ok", exc |-> "none", ret |-> NoResult ]

\* storage.save(token)
Save ==
    /\ store.step = "start"
    /\ \E tok \in TokenStrings \ {<< >>}, io \in {"ok", "open_failed", "write_failed"} :
          store' = [store EXCEPT !.step = "saved",
                                 !.file = TokenStorage_save_file(store.file, tok, io),
                                 !.token = tok,
                                 !.io = io]
    /\ UNCHANGED << latencies, phase, now, last_request_time, conns_open, token,
                    file, scope, active, issued, last_end, op, prev_auth,
                    unreleased, token_history, io_failed, retry, merge, chunk,
                    report, catalog >>

\* storage.load()
Load ==
    /\ store.step \in {"start", "saved"}
    /\ LET l == TokenStorage_load_file(store.file)
       IN  store' = [store EXCEPT !.step = IF store.step = "saved"
                                            THEN "saved_loaded" ELSE "loaded",
                                  !.exc = l.exc,
                                  !.ret = l.ret]
    /\ UNCHANGED << latencies, phase, now, last_request_time, conns_open, token,
                    file, scope, active, issued, last_end, op, prev_auth,
                    unreleased, token_history, io_failed, retry, merge, chunk,
                    report, catalog >>

NextStorage == Save \/ Load

SpecStorage == InitStorage /\ [][NextStorage]_vars

\* --------------------------------------------------- merging summary arrays
\* A JSON scalar of a summary array: null, a number or a string.
NoneValue == [ kind |-> "None", n |-> 0, s |-> "" ]

Num(n) == [ kind |-> "num", n |-> n, s |-> "" ]

Str(s) == [ kind |-> "str", n |-> 0, s |-> s ]

\* isinstance(v, (int, float))
IsNumber(v) == v.kind = "num"

Scalars == {NoneValue, Num(3), Num(5), Num(10), Str("x"), Str("y")}

RECURSIVE ArraysUpTo(_)
ArraysUpTo(k) ==
    IF k = 0
    THEN {<< >>}
    ELSE LET shorter == ArraysUpTo(k - 1)
         IN  shorter \cup {Append(a, v) : a \in shorter, v \in Scalars}

\* An array argument: a list, or None for "no array yet".
NoArray == [ is |-> "None", items |-> << >> ]

List(items) == [ is |-> "list", items |-> items ]

\* The two arrays of the documented example of a merge.
ExampleArrays == { << Num(10), NoneValue, Str("x") >>, << Num(5), Num(3), Str("y") >> }

Arrays == {NoArray} \cup {List(a) : a \in ArraysUpTo(MaxArray) \cup ExampleArrays}

Max(x, y) == IF x >= y THEN x ELSE y

\* add_summary_arrays that keeps a's entry whenever it has one.
add_summary_arrays_keeping(a, b) ==
    IF a = NoArray THEN b
    ELSE IF b = NoArray THEN a
    ELSE LET n == Max(Len(a.items), Len(b.items))
             av(i) == IF i <= Len(a.items) THEN a.items[i] ELSE NoneValue
             bv(i) == IF i <= Len(b.items) THEN b.items[i] ELSE NoneValue
         IN  List([ i \in 1..n |-> IF av(i) = NoneValue THEN bv(i) ELSE av(i) ])

\* add_summary_arrays(a, b)
add_summary_arrays(a, b) ==
    IF a = NoArray THEN b
    ELSE IF b = NoArray THEN a
    ELSE LET n == Max(Len(a.items), Len(b.items))
             av(i) == IF i <= Len(a.items) THEN a.items[i] ELSE NoneValue
             bv(i) == IF i <= Len(b.items) THEN b.items[i] ELSE NoneValue
         IN  List([ i \in 1..n |->
                      IF av(i) = NoneValue THEN bv(i)
                      ELSE IF bv(i) = NoneValue THEN av(i)
                      ELSE IF IsNumber(av(i)) /\ IsNumber(bv(i))
                           THEN Num(av(i).n + bv(i).n)
                           ELSE av(i) ])

InitMerge ==
    /\ Parked
    /\ retry = NoRetry /\ store = NoStore
    /\ chunk = NoChunk /\ report = NoReport /\ catalog = NoCatalog
    /\ merge \in [ step : {"start"}, a : Arrays, b : Arrays, out : {NoArray} ]

\* out = add_summary_arrays(a, b)
AddSummaryArrays ==
    /\ merge.step = "start"
    /\ merge' = [merge EXCEPT !.step = "merged",
                              !.out = add_summary_arrays(merge.a, merge.b)]
    /\ UNCHANGED << sdkVars, retry, store, chunk, report, catalog >>

NextMerge == AddSummaryArrays

SpecMerge == InitMerge /\ [][NextMerge]_vars

\* ------------------------------------------------ the weekly chunking loop
\* A datetime is a count of the smallest parts of a second that the ISO_MS
\* format can carry; instant 0 is a Monday 00:00:00.000000.
FracPerSec == 2

SecondsPerDay == 2

DaysPerWeek == 7

TicksPerDay == SecondsPerDay * FracPerSec

TicksPerWeek == DaysPerWeek * TicksPerDay

\* A timestamp text: the whole seconds and the fractional digits it shows.
Text(second, frac) == [ second |-> second, frac |-> frac ]

\* parse_dt: strptime with %f keeps the fraction.
parse_dt(text) == text.second * FracPerSec + text.frac

\* fmt_dt_ms: strftime up to %S followed by a literal ".000".
fmt_dt_ms(dt) == Text(dt \div FracPerSec, 0)

\* fmt_dt_no_ms: strftime up to %S; the text carries no fraction.
fmt_dt_no_ms(dt) == Text(dt \div FracPerSec, 0)

\* dt.replace(hour=0, minute=0, second=0, microsecond=0)
Midnight(dt) == dt - (dt % TicksPerDay)

\* dt.weekday(): 0 on a Monday.
Weekday(dt) == (dt \div TicksPerDay) % DaysPerWeek

\* next_monday_00 that answers the Monday of the week dt is in.
next_monday_00_this_week(dt) ==
    LET dt0 == Midnight(dt)
    IN  dt0 - Weekday(dt0) * TicksPerDay

\* next_monday_00(dt)
next_monday_00(dt) ==
    LET dt0 == Midnight(dt)
        monday_this == dt0 - Weekday(dt0) * TicksPerDay
        monday_next == monday_this + DaysPerWeek * TicksPerDay
    IN  IF dt0 >= monday_this THEN monday_next ELSE monday_this

Min(x, y) == IF x <= y THEN x ELSE y

\* The raw payloads build_report_v2 hands back for one sub-request: rows
\* under "data" and totals under "summary" or "totals", each key optional.
Raw(keys, data, summary, totals) ==
    [ keys |-> keys, data |-> data, summary |-> summary, totals |-> totals ]

Answers ==
    { Raw({"data", "summary"}, << "row1", "row2" >>, List(<< Str("x"), Num(5) >>), NoArray),
      Raw({"totals"}, << >>, NoArray, List(<< NoneValue, Num(3) >>)) }

\* raw.get("data", [])
raw_get_data(raw) == IF "data" \in raw.keys THEN raw.data ELSE << >>

\* The loop body that leaves out the rows it has merged before.
main_chunk_deduplicating(c, answer) ==
    LET week_end == Min(next_monday_00(c.cur), c.dt_to)
        sent == [ date_from |-> fmt_dt_no_ms(c.cur),
                  date_to |-> fmt_dt_no_ms(week_end),
                  from |-> fmt_dt_ms(c.cur),
                  to |-> fmt_dt_ms(week_end),
                  cur |-> c.cur,
                  week_end |-> week_end,
                  answer |-> answer ]
    IN  [c EXCEPT
           !.requests = Append(@, sent),
           !.data = @ \o SelectSeq(raw_get_data(answer),
                                   LAMBDA row : \A j \in 1..Len(c.data) : c.data[j] # row),
           !.summary = IF "summary" \in answer.keys
                       THEN add_summary_arrays(@, answer.summary) ELSE @,
           !.totals = IF "totals" \in answer.keys
                      THEN add_summary_arrays(@, answer.totals) ELSE @,
           !.chunks = Append(@, [ from |-> fmt_dt_ms(c.cur),
                                  to |-> fmt_dt_ms(week_end),
                                  raw |-> answer,
                                  rows |-> Len(raw_get_data(answer)) ]),
           !.cur = week_end ]

\* The loop body that goes back to the start of the range instead of
\* reaching its end, and keeps no log.
main_chunk_restarting(c, answer) ==
    LET week_end == Min(next_monday_00(c.cur), c.dt_to)
    IN  [c EXCEPT !.cur = IF week_end = c.dt_to THEN c.dt_from ELSE week_end]

\* One pass of the while loop of main whose sub-request is answered.
main_chunk(c, answer) ==
    LET week_end == Min(next_monday_00(c.cur), c.dt_to)
        sent == [ date_from |-> fmt_dt_no_ms(c.cur),
                  date_to |-> fmt_dt_no_ms(week_end),
                  from |-> fmt_dt_ms(c.cur),
                  to |-> fmt_dt_ms(week_end),
                  cur |-> c.cur,
                  week_end |-> week_end,
                  answer |-> answer ]
    IN  [c EXCEPT
           !.requests = Append(@, sent),
           !.data = @ \o raw_get_data(answer),
           !.summary = IF "summary" \in answer.keys
                       THEN add_summary_arrays(@, answer.summary) ELSE @,
           !.totals = IF "totals" \in answer.keys
                      THEN add_summary_arrays(@, answer.totals) ELSE @,
           !.chunks = Append(@, [ from |-> fmt_dt_ms(c.cur),
                                  to |-> fmt_dt_ms(week_end),
                                  raw |-> answer,
                                  rows |-> Len(raw_get_data(answer)) ]),
           !.cur = week_end ]

\* The overall range: its start anywhere in the first week, its end anywhere
\* in the first MaxWeeks weeks.
RangeTexts(last) ==
    { Text(sec, frac) : sec \in 0..(last \div FracPerSec), frac \in 0..(FracPerSec - 1) }

InitChunks ==
    /\ Parked
    /\ retry = NoRetry /\ store = NoStore
    /\ merge = NoMerge /\ report = NoReport /\ catalog = NoCatalog
    /\ \E overall_from \in RangeTexts(TicksPerWeek - 1),
          overall_to \in RangeTexts(MaxWeeks * TicksPerWeek) :
          chunk = [ pc |-> "loop",
                    overall_from |-> overall_from,
                    overall_to |-> overall_to,
                    dt_from |-> parse_dt(overall_from),
                    dt_to |-> parse_dt(overall_to),
                    cur |-> parse_dt(overall_from),
                    requests |-> << >>,
                    data |-> << >>,
                    summary |-> NoArray,
                    totals |-> NoArray,
                    chunks |-> << >> ]

\* while cur < dt_to: one sub-request, answered.
Chunk ==
    /\ chunk.pc = "loop"
    /\ chunk.cur < chunk.dt_to
    /\ \E answer \in Answers : chunk' = main_chunk(chunk, answer)
    /\ UNCHANGED << sdkVars, retry, store, merge, report, catalog >>

\* while cur < dt_to: the sub-request raises and main is left.
ChunkRaises ==
    /\ chunk.pc = "loop"
    /\ chunk.cur < chunk.dt_to
    /\ chunk' = [chunk EXCEPT !.pc = "raised"]
    /\ UNCHANGED << sdkVars, retry, store, merge, report, catalog >>

\* The loop condition is false: main goes on to print the merged result.
LoopEnds ==
    /\ chunk.pc = "loop"
    /\ ~(chunk.cur < chunk.dt_to)
    /\ chunk' = [chunk EXCEPT !.pc = "done"]
    /\ UNCHANGED << sdkVars, retry, store, merge, report, catalog >>

NextChunks == Chunk \/ ChunkRaises \/ LoopEnds

SpecChunks == InitChunks /\ [][NextChunks]_vars

\* main is a sequential program: as long as a statement of the loop can run,
\* one does (every sub-request returns or raises).
SpecChunksLive == SpecChunks /\ WF_vars(NextChunks)

\* ------------------------------------------------------- build_report_v2
\* bool(x) of a list argument or of a payload entry: None and [] are falsy.
NonEmpty(x) == x.is = "list" /\ Len(x.items) > 0

\* x or []
OrEmpty(x) == IF NonEmpty(x) THEN x.items ELSE << >>

\* The field lists a caller passes: None, empty, one field, two fields.
GroupByArguments ==
    { NoArray, List(<< >>), List(<< "Dept" >>), List(<< "Dept", "Date" >>) }

AggregateArguments ==
    { NoArray, List(<< >>), List(<< "Sum" >>), List(<< "Sum", "Count" >>),
      List(<< "Count", "Sum" >>) }

\* What response.json() holds under "summary" or under "totals": null, an
\* empty array, an array with too few entries and full ones.
TotalsArrays ==
    { NoArray, List(<< >>), List(<< Str("AllDepts"), Num(123) >>),
      List(<< Str("AllDepts"), Num(123), Num(45) >>),
      List(<< Str("All"), Str("Days"), Num(7), Num(8) >>) }

Payloads ==
    { Raw(keys, data, summary, totals) :
        keys \in SUBSET {"data", "summary", "totals"},
        data \in { << >>, << "row1", "row2" >> },
        summary \in TotalsArrays,
        totals \in { NoArray, List(<< Str("All"), Num(7), Num(8) >>) } }

\* data.get(key)
data_get(data, key) ==
    IF key \notin data.keys THEN NoArray
    ELSE IF key = "summary" THEN data.summary ELSE data.totals

NoSummary == [ is |-> "None", map |-> << >> ]

Dict(map) == [ is |-> "dict", map |-> map ]

\* build_report_v2 that reads the totals from position 0.
OLAPReports_build_report_v2_no_offset(group_by, aggregates, data) ==
    LET group_by_row_fields == OrEmpty(group_by)
        aggregate_fields == OrEmpty(aggregates)
        raw_summary == IF NonEmpty(data_get(data, "summary"))
                       THEN data_get(data, "summary")
                       ELSE data_get(data, "totals")
        mapped == NonEmpty(raw_summary) /\ aggregate_fields # << >>
    IN  IF mapped /\ Len(aggregate_fields) > Len(raw_summary.items)
        THEN [ exc |-> "IndexError", columns |-> << >>, rows |-> << >>,
               summary |-> NoSummary, raw |-> data ]
        ELSE [ exc |-> "none",
               columns |-> group_by_row_fields,
               rows |-> aggregate_fields,
               summary |->
                   IF mapped
                   THEN Dict([ field \in { aggregate_fields[i] :
                                             i \in 1..Len(aggregate_fields) } |->
                                 LET i == CHOOSE j \in 1..Len(aggregate_fields) :
                                            aggregate_fields[j] = field
                                 IN  raw_summary.items[i] ])
                   ELSE NoSummary,
               raw |-> data ]

\* build_report_v2 once the response has arrived (lines 291-318).
OLAPReports_build_report_v2(group_by, aggregates, data) ==
    LET group_by_row_fields == OrEmpty(group_by)
        aggregate_fields == OrEmpty(aggregates)
        raw_summary == IF NonEmpty(data_get(data, "summary"))
                       THEN data_get(data, "summary")
                       ELSE data_get(data, "totals")
        mapped == NonEmpty(raw_summary) /\ aggregate_fields # << >>
        offset == Len(group_by_row_fields)
    IN  IF mapped /\ offset + Len(aggregate_fields) > Len(raw_summary.items)
        THEN [ exc |-> "IndexError", columns |-> << >>, rows |-> << >>,
               summary |-> NoSummary, raw |-> data ]
        ELSE [ exc |-> "none",
               columns |-> group_by_row_fields,
               rows |-> aggregate_fields,
               summary |->
                   IF mapped
                   THEN Dict([ field \in { aggregate_fields[i] :
                                             i \in 1..Len(aggregate_fields) } |->
                                 LET i == CHOOSE j \in 1..Len(aggregate_fields) :
                                            aggregate_fields[j] = field
                                 IN  raw_summary.items[offset + i] ])
                   ELSE NoSummary,
               raw |-> data ]

InitReport ==
    /\ Parked
    /\ retry = NoRetry /\ store = NoStore
    /\ merge = NoMerge /\ chunk = NoChunk /\ catalog = NoCatalog
    /\ \E group_by \in GroupByArguments, aggregates \in AggregateArguments,
          data \in Payloads :
          report = [ step |-> "posted",
                     group_by_row_fields |-> group_by,
                     aggregate_fields |-> aggregates,
                     data |-> data,
                     result |-> [ exc |-> "none", columns |-> << >>, rows |-> << >>,
                                  summary |-> NoSummary, raw |-> data ] ]

\* The response of POST /v2/reports/olap is turned into an OLAPReport.
BuildReport ==
    /\ report.step = "posted"
    /\ report' = [report EXCEPT
                    !.step = "built",
                    !.result = OLAPReports_build_report_v2(
                                   report.group_by_row_fields,
                                   report.aggregate_fields, report.data)]
    /\ UNCHANGED << sdkVars, retry, store, merge, chunk, catalog >>

NextReport == BuildReport

SpecReport == InitReport /\ [][NextReport]_vars

\* ------------------------------------------------- parsing a column catalog
\* The body of a catalog response, by what its text is: nothing at all, a
\* JSON object (its entries in key order), a JSON array, JSON cut off after
\* its opening brace, an XML document (its column elements in document
\* order), or XML with an unclosed tag.
Doc(kind, items) == [ kind |-> kind, items |-> items ]

\* An entry of a JSON catalog: its key and its value, which is an object
\* (the fields it has) or some other JSON value.
Entry_(key, object, info) == [ key |-> key, object |-> object, info |-> info ]

InfoFull == [ name |-> "DishSum", type |-> "MONEY", aggregationAllowed |-> TRUE ]

InfoTagged ==
    [ name |-> "Department", type |-> "STRING", aggregationAllowed |-> FALSE,
      groupingAllowed |-> TRUE, filteringAllowed |-> TRUE,
      tags |-> << "org", "dim" >> ]

\* An object with none of the fields the parser reads.
InfoBare == [ comment |-> "n/a" ]

Keys == {"DishSum", "Dept"}

Entries ==
    { Entry_(key, TRUE, info) : key \in Keys, info \in {InfoFull, InfoTagged, InfoBare} }
      \cup { Entry_(key, FALSE, InfoBare) : key \in Keys }

RECURSIVE JsonObjectsUpTo(_)
JsonObjectsUpTo(k) ==
    IF k = 0
    THEN {<< >>}
    ELSE LET shorter == JsonObjectsUpTo(k - 1)
             fresh(o) == { e \in Entries : \A i \in 1..Len(o) : o[i].key # e.key }
         IN  shorter \cup UNION { { Append(o, e) : e \in fresh(o) } : o \in shorter }

\* The attributes of a column element.
Elements ==
    { [ name |-> "DishSum", caption |-> "Sum", type |-> "MONEY",
        aggregationAllowed |-> "true" ],
      [ name |-> "Dept" ],
      [ id |-> "Dept" ] }

RECURSIVE XmlDocsUpTo(_)
XmlDocsUpTo(k) ==
    IF k = 0
    THEN {<< >>}
    ELSE LET shorter == XmlDocsUpTo(k - 1)
         IN  shorter \cup { Append(d, e) : d \in shorter, e \in Elements }

Docs ==
    { Doc("empty", << >>), Doc("json_array", << >>), Doc("json_truncated", << >>),
      Doc("xml_invalid", << >>) }
      \cup { Doc("json_object", o) : o \in JsonObjectsUpTo(MaxColumns) }
      \cup { Doc("xml", d) : d \in XmlDocsUpTo(MaxColumns) }

\* The Content-Type header values of a response; "" when there is none.
ContentTypes == {"application/json", "Application/JSON", "application/xml", ""}

\* content_type.lower()
lower(content_type) ==
    IF content_type = "Application/JSON" THEN "application/json" ELSE content_type

\* 'json' in text
contains_json(text) == text = "application/json"

\* content.strip()[:1]: the first character that is not whitespace.
FirstChar(doc) ==
    CASE doc.kind \in {"json_object", "json_truncated"} -> "{"
      [] doc.kind = "json_array" -> "["
      [] doc.kind \in {"xml", "xml_invalid"} -> "<"
      [] OTHER -> ""

\* json.loads: the text is JSON or JSONDecodeError is raised.
json_loads_ok(doc) == doc.kind \in {"json_object", "json_array"}

\* ET.fromstring: the text is well-formed XML or ParseError is raised.
fromstring_ok(doc) == doc.kind = "xml"

\* dict.get(key, default) and Element.get(key, default)
Get(d, key, default) == IF key \in DOMAIN d THEN d[key] ELSE default

\* str() of a JSON boolean.
str(b) == IF b THEN "True" ELSE "False"

RECURSIVE Join(_)
\* ", ".join(tags)
Join(tags) ==
    IF Len(tags) = 0 THEN ""
    ELSE IF Len(tags) = 1 THEN tags[1]
    ELSE tags[1] \o ", " \o Join(Tail(tags))

Parsed(exc, format, columns) == [ exc |-> exc, format |-> format, columns |-> columns ]

\* _parse_columns_json that writes the flags as JSON does.
OLAPReports_parse_columns_json_lowercase(doc) ==
    IF ~json_loads_ok(doc)
    THEN Parsed("ValueError", "json", << >>)
    ELSE IF doc.kind # "json_object"
              \/ \E i \in 1..Len(doc.items) : ~doc.items[i].object
    THEN Parsed("AttributeError", "json", << >>)
    ELSE Parsed("none", "json",
           [ i \in 1..Len(doc.items) |->
               LET col_key == doc.items[i].key
                   col_info == doc.items[i].info
                   json(b) == IF b THEN "true" ELSE "false"
               IN  [ id |-> col_key,
                     name |-> Get(col_info, "name", col_key),
                     caption |-> Get(col_info, "name", ""),
                     type |-> Get(col_info, "type", ""),
                     aggregationAllowed |-> json(Get(col_info, "aggregationAllowed", FALSE)),
                     groupingAllowed |-> json(Get(col_info, "groupingAllowed", FALSE)),
                     filteringAllowed |-> json(Get(col_info, "filteringAllowed", FALSE)) ] ])

\* _parse_columns_json(json_text)
OLAPReports_parse_columns_json(doc) ==
    IF ~json_loads_ok(doc)
    THEN Parsed("ValueError", "json", << >>)
    ELSE IF doc.kind # "json_object"
              \/ \E i \in 1..Len(doc.items) : ~doc.items[i].object
    THEN Parsed("AttributeError", "json", << >>)
    ELSE Parsed("none", "json",
           [ i \in 1..Len(doc.items) |->
               LET col_key == doc.items[i].key
                   col_info == doc.items[i].info
                   col_data == [ id |-> col_key,
                                 name |-> Get(col_info, "name", col_key),
                                 caption |-> Get(col_info, "name", ""),
                                 type |-> Get(col_info, "type", ""),
                                 aggregationAllowed |->
                                     str(Get(col_info, "aggregationAllowed", FALSE)),
                                 groupingAllowed |->
                                     str(Get(col_info, "groupingAllowed", FALSE)),
                                 filteringAllowed |->
                                     str(Get(col_info, "filteringAllowed", FALSE)) ]
               IN  IF "tags" \in DOMAIN col_info
                   THEN [ k \in DOMAIN col_data \cup {"tags"} |->
                            IF k = "tags" THEN Join(col_info.tags) ELSE col_data[k] ]
                   ELSE col_data ])

\* _parse_columns_xml(xml_text)
OLAPReports_parse_columns_xml(doc) ==
    IF doc.kind = "empty"
    THEN Parsed("none", "xml", << >>)
    ELSE IF ~fromstring_ok(doc)
    THEN Parsed("ValueError", "xml", << >>)
    ELSE Parsed("none", "xml",
           [ i \in 1..Len(doc.items) |->
               LET attrib == doc.items[i]
               IN  [ k \in {"name", "caption", "type"} \cup DOMAIN attrib |->
                       Get(attrib, k, "") ] ])

\* _parse_columns that lets the content type alone decide.
OLAPReports_parse_columns_by_header(doc, content_type) ==
    IF contains_json(lower(content_type))
    THEN OLAPReports_parse_columns_json(doc)
    ELSE OLAPReports_parse_columns_xml(doc)

\* _parse_columns(content, content_type)
OLAPReports_parse_columns(doc, content_type) ==
    IF contains_json(lower(content_type)) \/ FirstChar(doc) = "{"
    THEN OLAPReports_parse_columns_json(doc)
    ELSE OLAPReports_parse_columns_xml(doc)

InitCatalog ==
    /\ Parked
    /\ retry = NoRetry /\ store = NoStore
    /\ merge = NoMerge /\ chunk = NoChunk /\ report = NoReport
    /\ \E doc \in Docs, padded \in BOOLEAN, content_type \in ContentTypes :
          catalog = [ step |-> "received",
                      doc |-> doc,
                      padded |-> padded,
                      content_type |-> content_type,
                      result |-> Parsed("none", "none", << >>) ]

\* get_columns hands the response text and its Content-Type to _parse_columns.
ParseColumns ==
    /\ catalog.step = "received"
    /\ catalog' = [catalog EXCEPT
                     !.step = "parsed",
                     !.result = OLAPReports_parse_columns(catalog.doc,
                                                          catalog.content_type)]
    /\ UNCHANGED << sdkVars, retry, store, merge, chunk, report >>

NextCatalog == ParseColumns

SpecCatalog == InitCatalog /\ [][NextCatalog]_vars

\* -------------------------------------------------------------------- claims
\* The operation that ran last is a direct authenticate(force=False) call
\* (on the manager, through the facade, or on entering the with-block).
AuthCall == op.name \in {"authenticate", "enter"} /\ ~op.force

ForcedCall == op.name = "authenticate" /\ op.force

\* The login answer of the last operation was a success status with a body
\* that is empty once stripped.
EmptyLogin ==
    /\ op.name \in {"authenticate", "enter"}
    /\ Len(op.log) >= 1
    /\ op.log[1].kind = "auth"
    /\ op.log[1].status \in {200, 204}
    /\ ~Truthy(op.log[1].tok)

\* C1: every request of the last operation started at least MinDelay after
\* the request before it ended, whoever made either of them and however the
\* earlier one ended.
C1_Pacing ==
    \A i \in 1..Len(op.log) :
        LET before == IF i = 1 THEN op.pre_end ELSE op.log[i - 1].end
        IN  before # NoTime => op.log[i].start - before >= MinDelay

\* The login that refresh_if_needed issues right after its validation probe
\* has failed without an answer: it waits out the delay.
C1_Witness ==
    /\ op.name = "refresh_if_needed"
    /\ Len(op.log) = 2
    /\ op.log[1].kind = "probe"
    /\ op.log[1].status = 0
    /\ op.log[2].kind = "auth"
    /\ op.log[2].start - op.log[1].end = MinDelay
    /\ op.log[1].end > op.log[1].start

\* C2 as stated: logout() with a token held ends with no token in memory,
\* no storage file, and no exception.
C2_Original ==
    (op.name = "logout" /\ Truthy(op.pre_token)) =>
        /\ token = None
        /\ file.kind = "absent"
        /\ op.exc = "none"

\* C2: logout() with a token held ends with no token in memory and raises
\* nothing, whatever the answer to its logout call; the storage file is
\* gone unless deleting it failed, and then it is as it was.
C2_LogoutClears ==
    (op.name = "logout" /\ Truthy(op.pre_token)) =>
        /\ token = None
        /\ op.exc = "none"
        /\ Len(op.log) = 1
        /\ op.log[1].kind = "logout"
        /\ IF op.ioerr THEN file = op.pre_file ELSE file.kind = "absent"

\* A logout whose remote call got no answer, with both copies cleared.
C2_Witness ==
    /\ op.name = "logout"
    /\ Truthy(op.pre_token)
    /\ op.pre_file = RecordFile(op.pre_token)
    /\ op.log[1].status = 0
    /\ token = None
    /\ file.kind = "absent"

\* C3 as stated: after leaving the with-block no token is held, none is
\* persisted and the connections are closed.
C3_Original ==
    op.name = "exit" =>
        /\ token = None
        /\ file.kind = "absent"
        /\ ~conns_open

\* C3: leaving the with-block, normally or through an exception of its body,
\* issues a logout call for a held token, leaves no token in memory and
\* closes the connections; nothing is persisted afterwards unless a storage
\* write or delete has failed.
C3_ExitReleases ==
    op.name = "exit" =>
        /\ token = None
        /\ ~conns_open
        /\ scope = "out"
        /\ Truthy(op.pre_token) =>
              (Len(op.log) = 1 /\ op.log[1].kind = "logout"
                               /\ op.log[1].key = op.pre_token)
        /\ io_failed \/ file.kind = "absent"

\* The block is left because its body raised, while a token was held.
C3_Witness ==
    /\ op.name = "exit"
    /\ op.pre_scope = "raising"
    /\ Truthy(op.pre_token)
    /\ op.pre_file = RecordFile(op.pre_token)
    /\ token = None
    /\ file.kind = "absent"
    /\ ~conns_open

\* C4 as stated: two authenticate(force=False) calls with no logout in
\* between issue exactly one login call in total.
C4_Original ==
    (AuthCall /\ op.earlier.called) =>
        op.earlier.logins + Logins(op.log) = 1

\* C4: of two authenticate(force=False) calls with no logout and no
\* invalidation in between, the second issues no login call when the first
\* returned; together they issue one login call when no token was held
\* before the first and none when one was held.  A first call that failed
\* has issued one login call and the second issues at most one more.
C4_AtMostOneLogin ==
    (AuthCall /\ op.earlier.called) =>
        IF op.earlier.exc = "none"
        THEN /\ Logins(op.log) = 0
             /\ op.earlier.logins = (IF op.earlier.held THEN 0 ELSE 1)
        ELSE /\ op.earlier.logins = 1
             /\ Logins(op.log) <= 1

\* The second of two calls, the first of which logged in.
C4_Witness ==
    /\ AuthCall
    /\ op.earlier.called
    /\ ~op.earlier.held
    /\ op.earlier.exc = "none"
    /\ op.earlier.logins = 1
    /\ Logins(op.log) = 0

\* C5 as stated: authenticate(force=True) issues one login call, and on
\* success memory and storage both hold the token it returned.
C5_Original ==
    ForcedCall =>
        /\ Logins(op.log) = 1
        /\ op.exc = "none" =>
              /\ op.ret = op.log[1].tok
              /\ token = op.ret
              /\ file = RecordFile(op.ret)

\* C5: authenticate(force=True) issues one login call whether or not a token
\* is held; on success the token in memory is the one just returned, and so
\* is the stored one unless writing the file failed.
C5_ForceReplaces ==
    ForcedCall =>
        /\ Logins(op.log) = 1
        /\ Len(op.log) = 1
        /\ op.exc = "none" =>
              /\ Truthy(op.ret)
              /\ op.ret = op.log[1].tok
              /\ token = op.ret
              /\ op.ioerr \/ file = RecordFile(op.ret)

\* A forced call that replaced a held token and its stored copy.
C5_Witness ==
    /\ ForcedCall
    /\ Truthy(op.pre_token)
    /\ op.pre_file = RecordFile(op.pre_token)
    /\ op.exc = "none"
    /\ token # op.pre_token
    /\ file = RecordFile(token)

\* C6: authenticate(force=False) with a token held returns that token,
\* issues no request and changes neither the token nor the storage file.
C6_CachedPath ==
    (AuthCall /\ Truthy(op.pre_token)) =>
        /\ op.ret = op.pre_token
        /\ op.exc = "none"
        /\ op.log = << >>
        /\ token = op.pre_token
        /\ file = op.pre_file

\* A cached call while the token is also on file.
C6_Witness ==
    /\ AuthCall
    /\ Truthy(op.pre_token)
    /\ op.pre_file = RecordFile(op.pre_token)
    /\ op.ret = op.pre_token

\* C7: the manager never has more than one token that it acquired and did
\* not pass to a logout call: it takes no second license slot while it still
\* occupies one.
C7_Original == Cardinality(unreleased) <= 1

\* C8 as stated: a held token was issued by a successful login; without a
\* token the manager has never held one or has been logged out.
C8_Original ==
    /\ Truthy(token) => token \in 1..issued
    /\ ~Truthy(token) => token_history \in {"never", "logout", "exit"}

\* C8: a held token was issued by a successful login; without a token the
\* manager has never held one, has been logged out, or has dropped the
\* token in refresh_if_needed after a failed validation.
C8_TokenOrigin ==
    /\ token # EmptyStr
    /\ Truthy(token) => token \in 1..issued
    /\ ~Truthy(token) =>
          token_history \in {"never", "logout", "exit", "refresh_if_needed"}

\* No token is held because refresh_if_needed dropped it and could not
\* log in again.
C8_Witness ==
    /\ phase = "ready"
    /\ ~Truthy(token)
    /\ token_history = "refresh_if_needed"
    /\ op.name = "refresh_if_needed"
    /\ op.exc # "none"

\* C9: constructed over a file that holds a token, the manager holds that
\* token and is authenticated without a request having been made;
\* constructed over no file, it holds none.
C9_LoadOnConstruct ==
    (op.name = "init" /\ phase = "ready") =>
        /\ op.log = << >>
        /\ last_request_time = NoTime
        /\ ~conns_open
        /\ (op.pre_file.kind = "record" /\ Truthy(op.pre_file.token)) =>
              (token = op.pre_file.token /\ is_authenticated)
        /\ op.pre_file.kind = "absent" => (token = None /\ ~is_authenticated)

\* Constructed over a stored token.
C9_Witness ==
    /\ op.name = "init"
    /\ phase = "ready"
    /\ op.pre_file = RecordFile(1)
    /\ token = 1
    /\ is_authenticated

\* C10: when the login answer has an empty stripped body, authenticate
\* raises ValueError (not RequestException), has issued that one login call
\* only, and leaves token and storage file as they were.
C10_EmptyToken ==
    EmptyLogin =>
        /\ op.exc = "ValueError"
        /\ Len(op.log) = 1
        /\ token = op.pre_token
        /\ file = op.pre_file
        /\ ~op.ioerr

\* A forced call over a held token answered with whitespace only.
C10_Witness ==
    /\ EmptyLogin
    /\ op.force
    /\ op.log[1].pad
    /\ Truthy(op.pre_token)
    /\ op.pre_file = RecordFile(op.pre_token)
    /\ op.exc = "ValueError"

\* The login call of the last authenticate got no answer or an error status.
FailedLogin ==
    /\ op.name \in {"authenticate", "enter"}
    /\ Len(op.log) = 1
    /\ op.log[1].kind = "auth"
    /\ (op.log[1].status = 0 \/ raise_for_status(op.log[1].status))

\* C11 as stated: after a login call that failed with a transport error,
\* authenticate has raised that error and no token is held.
C11_Original ==
    FailedLogin =>
        /\ op.exc = "RequestException"
        /\ ~Truthy(token)

\* C11: after a login call that failed with a transport error, authenticate
\* has raised that error and token and storage file are as they were before
\* the call: no token if none was held, the earlier token if a forced call
\* was made with one held.
C11_FailedLoginKeepsState ==
    FailedLogin =>
        /\ op.exc = "RequestException"
        /\ token = op.pre_token
        /\ file = op.pre_file
        /\ ~op.ioerr
        /\ Truthy(op.pre_token) => op.force

\* A forced call over a held token whose login call got no answer.
C11_Witness ==
    /\ FailedLogin
    /\ op.force
    /\ op.log[1].status = 0
    /\ Truthy(op.pre_token)
    /\ token = op.pre_token
    /\ op.exc = "RequestException"

\* C12: validate_token() never raises; without a token it returns False and
\* issues no request; with a token it issues one probe call carrying that
\* token and returns True exactly when the answer has status 200.
C12_ValidateNeverRaises ==
    op.name = "validate_token" =>
        /\ op.exc = "none"
        /\ token = op.pre_token
        /\ file = op.pre_file
        /\ IF Truthy(op.pre_token)
           THEN /\ Len(op.log) = 1
                /\ op.log[1].kind = "probe"
                /\ op.log[1].key = op.pre_token
                /\ op.valid <=> (op.log[1].status = 200)
           ELSE /\ op.log = << >>
                /\ ~op.valid

\* A probe answered with a success status other than 200: not valid.
C12_Witness ==
    /\ op.name = "validate_token"
    /\ Truthy(op.pre_token)
    /\ Len(op.log) = 1
    /\ op.log[1].status = 204
    /\ ~op.valid
    /\ op.exc = "none"

\* C13 as stated: refresh_if_needed() after a successful probe returns the
\* held token and changes nothing; after a failed one it logs in once and
\* either returns a token the server accepts, or raises and leaves no token
\* in memory or in storage.
C13_Original ==
    op.name = "refresh_if_needed" =>
        IF op.valid
        THEN /\ op.exc = "none"
             /\ op.ret = op.pre_token
             /\ op.ret \in active
             /\ Logins(op.log) = 0
             /\ token = op.pre_token
             /\ file = op.pre_file
        ELSE /\ Logins(op.log) = 1
             /\ op.exc = "none" => (Truthy(op.ret) /\ op.ret = token
                                                   /\ op.ret \in active)
             /\ op.exc # "none" => (token = None /\ file.kind # "record")

\* C13: refresh_if_needed() after a successful probe returns the held token
\* and changes nothing; after a failed one it drops the token, deletes the
\* storage file, logs in once and either returns the new token, which the
\* server accepts, or raises and holds no token; the storage file is then
\* gone unless deleting it failed.
C13_RefreshIfNeeded ==
    op.name = "refresh_if_needed" =>
        IF op.valid
        THEN /\ op.exc = "none"
             /\ op.ret = op.pre_token
             /\ op.ret \in active
             /\ op.log[1].status = 200
             /\ Logins(op.log) = 0
             /\ token = op.pre_token
             /\ file = op.pre_file
        ELSE /\ Logins(op.log) = 1
             /\ op.log[Len(op.log)].kind = "auth"
             /\ op.exc = "none" =>
                   /\ Truthy(op.ret)
                   /\ op.ret = token
                   /\ op.ret \in active
                   /\ op.ret = op.log[Len(op.log)].tok
                   /\ op.ioerr \/ file = RecordFile(op.ret)
             /\ op.exc # "none" =>
                   /\ token = None
                   /\ IF op.ioerr THEN file = op.pre_file
                                  ELSE file.kind = "absent"

\* A held token is rejected by the probe and replaced through a new login.
C13_Witness ==
    /\ op.name = "refresh_if_needed"
    /\ Truthy(op.pre_token)
    /\ Len(op.log) = 2
    /\ op.log[1].status = 401
    /\ op.exc = "none"
    /\ token # op.pre_token
    /\ token \in active
    /\ file = RecordFile(token)

\* The positions of the facade's own requests in a log.
ApiCalls(log) == {i \in 1..Len(log) : log[i].kind = "api"}

\* C14: a facade request with authentication carries as key the token the
\* manager holds when it is sent; one without authentication is the only
\* request made, carries no key and leaves the token alone.
C14_KeyInjected ==
    op.name = "request" =>
        IF op.authenticated
        THEN /\ Cardinality(ApiCalls(op.log)) <= 1
             /\ \A i \in ApiCalls(op.log) :
                   /\ i = Len(op.log)
                   /\ Truthy(op.log[i].key)
                   /\ op.log[i].key = token
             /\ ApiCalls(op.log) = {} => op.exc # "none"
        ELSE /\ Len(op.log) = 1
             /\ ApiCalls(op.log) = {1}
             /\ op.log[1].key = None
             /\ Logins(op.log) = 0
             /\ token = op.pre_token
             /\ file = op.pre_file

\* A POST through the facade while a token is held carries that token.
C14_Witness ==
    /\ op.name = "request"
    /\ op.authenticated
    /\ Truthy(op.pre_token)
    /\ Len(op.log) = 1
    /\ op.log[1].kind = "api"
    /\ op.log[1].method = "POST"
    /\ op.log[1].key = op.pre_token

\* C15: an authenticated facade request made without a token logs in
\* exactly once, first, and sends the request with the token just obtained
\* (or sends nothing when the login fails); made with a token held it does
\* not log in.
C15_LazyLogin ==
    (op.name = "request" /\ op.authenticated) =>
        IF Truthy(op.pre_token)
        THEN /\ Logins(op.log) = 0
             /\ token = op.pre_token
        ELSE /\ Logins(op.log) = 1
             /\ op.log[1].kind = "auth"
             /\ IF Truthy(token)
                THEN /\ Len(op.log) = 2
                     /\ op.log[2].kind = "api"
                     /\ op.log[2].key = op.log[1].tok
                     /\ op.log[2].start >= op.log[1].end
                ELSE /\ Len(op.log) = 1
                     /\ op.exc # "none"

\* The first authenticated request of a client without a token: a login,
\* then the request.
C15_Witness ==
    /\ op.name = "request"
    /\ op.authenticated
    /\ ~Truthy(op.pre_token)
    /\ Len(op.log) = 2
    /\ op.log[1].kind = "auth"
    /\ op.log[2].kind = "api"
    /\ op.log[2].key = token
    /\ Truthy(token)

\* The methods that are idempotent (RFC 9110): the safe ones, PUT and DELETE.
IdempotentMethods == {"GET", "HEAD", "OPTIONS", "PUT", "DELETE"}

\* C16: a call is attempted again only after an answer with a status on the
\* retry list and only when its method is idempotent, and it is attempted at
\* most max_retries times beyond the first.
C16_Original ==
    /\ Len(retry.statuses) <= retry.max_retries + 1
    /\ Len(retry.statuses) > 1 =>
          /\ retry.method \in IdempotentMethods
          /\ \A i \in 1..(Len(retry.statuses) - 1) :
                retry.statuses[i] \in status_forcelist

C18_Original ==
    (store.step = "loaded" /\ store.before \in MalformedFiles) =>
        /\ store.exc = "none"
        /\ store.ret = NoResult

\* C19: an operation during which a storage write or delete failed goes on
\* as if it had not: authenticate returns the new token and holds it, logout
\* ends without a token and without an exception, refresh_if_needed goes on
\* to its login, a facade request goes on to be sent; the only exceptions
\* are those of the login call of refresh_if_needed and of the facade's own
\* request.
C19_StorageErrorsSwallowed ==
    op.ioerr =>
        /\ op.exc \in {"none", "RequestException", "ValueError"}
        /\ op.exc # "none" =>
              \/ /\ op.name = "refresh_if_needed"
                 /\ token = None
                 /\ op.log[Len(op.log)].kind = "auth"
              \/ /\ op.name = "request"
                 /\ op.exc = "RequestException"
        /\ op.name \in {"authenticate", "enter"} =>
              /\ Truthy(op.ret)
              /\ op.ret = op.log[1].tok
              /\ token = op.ret
        /\ op.name \in {"logout", "exit"} => token = None
        /\ op.name = "refresh_if_needed" =>
              /\ Logins(op.log) = 1
              /\ token # op.pre_token \/ ~Truthy(op.pre_token)
              /\ op.exc = "none" => (Truthy(op.ret) /\ token = op.ret)
        /\ op.name = "request" =>
              /\ Len(op.log) = 2
              /\ op.log[2].kind = "api"
              /\ op.log[2].key = token

\* An authenticate whose token could not be written to the file.
C19_Witness ==
    /\ op.name = "authenticate"
    /\ op.ioerr
    /\ op.exc = "none"
    /\ Truthy(op.ret)
    /\ token = op.ret
    /\ file # RecordFile(token)

\* C20: logout() without a token issues no request, raises nothing and
\* leaves the token and the storage file as they are.
C20_LogoutNoop ==
    (op.name = "logout" /\ ~Truthy(op.pre_token)) =>
        /\ op.log = << >>
        /\ op.exc = "none"
        /\ ~op.ioerr
        /\ token = op.pre_token
        /\ file = op.pre_file
        /\ last_end = op.pre_end

\* A logout after the token was given up by a logout whose file could not
\* be deleted: the file is still there and stays.
C20_Witness ==
    /\ op.name = "logout"
    /\ ~Truthy(op.pre_token)
    /\ token_history = "logout"
    /\ op.log = << >>
    /\ file.kind = "record"

\* The call of add_summary_arrays under study has returned.
Merged == merge.step = "merged"

\* The entry of array x at position i: None past its end.
Entry(x, i) == IF i <= Len(x.items) THEN x.items[i] ELSE NoneValue

\* C21: add_summary_arrays(a, b) of two lists is a list as long as the longer
\* one, whose entry at each position is b's where a's is absent (None or past
\* the end), a's where b's is absent, the sum where both are numbers, and a's
\* where both are present and one of them is not a number; None on either
\* side returns the other argument unchanged.
C21_AddSummaryArrays ==
    Merged =>
        LET a == merge.a
            b == merge.b
            out == merge.out
        IN  /\ a = NoArray => out = b
            /\ b = NoArray => out = a
            /\ (a # NoArray /\ b # NoArray) =>
                 /\ out.is = "list"
                 /\ Len(out.items) = Max(Len(a.items), Len(b.items))
                 /\ \A i \in 1..Len(out.items) :
                      LET x == Entry(a, i)
                          y == Entry(b, i)
                      IN  /\ x = NoneValue => out.items[i] = y
                          /\ y = NoneValue => out.items[i] = x
                          /\ (x.kind = "num" /\ y.kind = "num") =>
                               out.items[i] = Num(x.n + y.n)
                          /\ (x # NoneValue /\ y # NoneValue
                                /\ (x.kind = "str" \/ y.kind = "str")) =>
                               out.items[i] = x

\* The example of the claim: [10, None, "x"] merged with [5, 3, "y"] gives
\* [15, 3, "x"].
C21_Witness ==
    /\ Merged
    /\ merge.a = List(<< Num(10), NoneValue, Str("x") >>)
    /\ merge.b = List(<< Num(5), Num(3), Str("y") >>)
    /\ merge.out = List(<< Num(15), Num(3), Str("x") >>)

\* The chunking loop has run to its end.
LoopDone == chunk.pc = "done"

\* The calendar week (Monday to Monday) an instant lies in.
WeekOf(t) == t \div TicksPerWeek

\* C22: for every overall range with overall_from < overall_to, the windows of
\* the sub-requests issued by the loop cover [overall_from, overall_to) with
\* no gap and no overlap: the first starts at overall_from, each next one
\* starts where the one before ended, every window is non-empty, the last
\* ends at overall_to, and there is one window per calendar week the range
\* reaches into.
C22_Original ==
    (LoopDone /\ chunk.dt_from < chunk.dt_to) =>
        LET w == chunk.requests
            n == Len(w)
        IN  /\ n >= 1
            /\ parse_dt(w[1].from) = chunk.dt_from
            /\ \A i \in 1..(n - 1) : w[i + 1].from = w[i].to
            /\ \A i \in 1..n : parse_dt(w[i].from) < parse_dt(w[i].to)
            /\ parse_dt(w[n].to) = chunk.dt_to
            /\ n = WeekOf(chunk.dt_to - 1) - WeekOf(chunk.dt_from) + 1

\* The same for ranges whose two ends are whole seconds.
C22_WholeSeconds ==
    (chunk.pc # "none" /\ chunk.overall_from.frac = 0 /\ chunk.overall_to.frac = 0)
        => C22_Original

\* A Monday 00:00:00.000000.
IsMonday00(t) == t % TicksPerWeek = 0

\* The first Monday 00:00 strictly after instant t.
WeekBoundaryAfter(t) == (WeekOf(t) + 1) * TicksPerWeek

\* C23: the end the loop computes for the window starting at cur is the
\* earlier of the next week boundary and the overall end, where the next week
\* boundary is the first Monday 00:00 strictly after cur (a full week later
\* when cur is itself a Monday 00:00); the boundary is strictly after cur and
\* no window is longer than seven days.
C23_WindowEnd ==
    \A i \in 1..Len(chunk.requests) :
        LET cur == chunk.requests[i].cur
            week_end == chunk.requests[i].week_end
            boundary == WeekBoundaryAfter(cur)
        IN  /\ IsMonday00(boundary)
            /\ boundary > cur
            /\ \A t \in (cur + 1)..(boundary - 1) : ~IsMonday00(t)
            /\ IsMonday00(cur) => boundary = cur + TicksPerWeek
            /\ week_end = (IF boundary <= chunk.dt_to THEN boundary ELSE chunk.dt_to)
            /\ week_end - cur <= TicksPerWeek

\* A window that starts on a Monday 00:00 and lasts the whole week, one that
\* starts in the middle of a day and ends at the next Monday, and one cut
\* short by the overall end.
C23_Witness ==
    /\ Len(chunk.requests) = 3
    /\ ~IsMonday00(chunk.requests[1].cur)
    /\ chunk.requests[1].cur # Midnight(chunk.requests[1].cur)
    /\ IsMonday00(chunk.requests[1].week_end)
    /\ chunk.requests[2].week_end = chunk.requests[2].cur + TicksPerWeek
    /\ chunk.requests[3].week_end = chunk.dt_to
    /\ ~IsMonday00(chunk.dt_to)

RECURSIVE ConcatRows(_)
ConcatRows(answers) ==
    IF answers = << >>
    THEN << >>
    ELSE ConcatRows(SubSeq(answers, 1, Len(answers) - 1))
           \o raw_get_data(answers[Len(answers)])

RECURSIVE SumRows(_)
SumRows(log) ==
    IF log = << >>
    THEN 0
    ELSE SumRows(SubSeq(log, 1, Len(log) - 1)) + log[Len(log)].rows

\* C24: after the loop the merged rows are the rows of every chunk, chunk
\* after chunk, with nothing dropped, deduplicated or reordered; their number
\* is the sum of the row counts of the chunk log; and the chunk log has one
\* entry (window start, window end, raw payload, row count) per sub-request
\* issued.
C24_MergedRows ==
    LoopDone =>
        /\ chunk.data = ConcatRows([ i \in 1..Len(chunk.requests) |->
                                        chunk.requests[i].answer ])
        /\ Len(chunk.data) = SumRows(chunk.chunks)
        /\ Len(chunk.chunks) = Len(chunk.requests)
        /\ \A i \in 1..Len(chunk.chunks) :
              /\ chunk.chunks[i].from = chunk.requests[i].from
              /\ chunk.chunks[i].to = chunk.requests[i].to
              /\ chunk.chunks[i].raw = chunk.requests[i].answer
              /\ chunk.chunks[i].rows = Len(raw_get_data(chunk.requests[i].answer))

\* Three chunks: two rows, no "data" key at all, the same two rows again.
C24_Witness ==
    /\ LoopDone
    /\ Len(chunk.chunks) = 3
    /\ chunk.chunks[1].rows = 2
    /\ "data" \notin chunk.chunks[2].raw.keys
    /\ chunk.chunks[3].rows = 2
    /\ chunk.data = << "row1", "row2", "row1", "row2" >>

\* build_report_v2 has returned an OLAPReport.
Built == report.step = "built" /\ report.result.exc = "none"

\* The grouping and aggregate fields of the call, None read as no fields.
G == OrEmpty(report.group_by_row_fields)

A == OrEmpty(report.aggregate_fields)

\* The raw totals array of the response: what is under "summary", or under
\* "totals" when "summary" is missing, null or empty.
T ==
    LET under(key) == IF key \in report.data.keys
                      THEN (IF key = "summary" THEN report.data.summary
                                                ELSE report.data.totals)
                      ELSE NoArray
    IN  IF under("summary") \notin {NoArray, List(<< >>)}
        THEN under("summary") ELSE under("totals")

\* C25: the summary of the report maps each aggregate field A[i] to the entry
\* of the raw totals array T that lies len(G) + i positions in, and is absent
\* when the response has no summary/totals or no aggregate field was asked for.
C25_SummaryOffset ==
    Built =>
        IF T \in {NoArray, List(<< >>)} \/ A = << >>
        THEN report.result.summary = NoSummary
        ELSE /\ report.result.summary.is = "dict"
             /\ DOMAIN report.result.summary.map = { A[i] : i \in 1..Len(A) }
             /\ \A i \in 1..Len(A) :
                   report.result.summary.map[A[i]] = T.items[Len(G) + i]

\* The example of the claim: G = ["Dept"], A = ["Sum", "Count"] and
\* T = ["AllDepts", 123, 45] give {"Sum": 123, "Count": 45}.
C25_Witness ==
    /\ Built
    /\ G = << "Dept" >>
    /\ A = << "Sum", "Count" >>
    /\ T = List(<< Str("AllDepts"), Num(123), Num(45) >>)
    /\ report.result.summary.map["Sum"] = Num(123)
    /\ report.result.summary.map["Count"] = Num(45)

\* C26: the columns of the result are the requested grouping fields followed
\* by the requested aggregate fields, in request order.
C26_Original == Built => report.result.columns = G \o A

\* C27: the rows of the result are the entries under the response's "data"
\* key, one result row per response row.
C27_Original ==
    Built => report.result.rows = (IF "data" \in report.data.keys
                                   THEN report.data.data ELSE << >>)

\* _parse_columns has returned or raised.
ColumnsParsed == catalog.step = "parsed"

\* The Content-Type names JSON, in any letter case.
DeclaresJson == catalog.content_type \in {"application/json", "Application/JSON"}

DeclaresXml == catalog.content_type = "application/xml"

\* The first character of the body that is not whitespace is an opening brace.
StartsWithBrace == catalog.doc.kind \in {"json_object", "json_truncated"}

\* C28: the format is decided by the declared content type first and by the
\* first non-whitespace character only when the content type does not decide
\* ('{' means JSON, anything else XML); a payload whose content type declares
\* XML is parsed as XML.
C28_Original ==
    ColumnsParsed =>
        catalog.result.format =
            (IF DeclaresJson THEN "json"
             ELSE IF DeclaresXml THEN "xml"
             ELSE IF StartsWithBrace THEN "json" ELSE "xml")

\* C28 (amended): a payload is parsed as JSON when its content type names
\* JSON or when its first non-whitespace character is '{', whatever else the
\* content type declares; every other payload is parsed as XML. A payload
\* whose content type declares XML is parsed as XML unless it begins with '{'.
C28_FormatDetection ==
    ColumnsParsed =>
        /\ DeclaresJson => catalog.result.format = "json"
        /\ StartsWithBrace => catalog.result.format = "json"
        /\ (~DeclaresJson /\ ~StartsWithBrace) => catalog.result.format = "xml"

\* A JSON catalog served as application/xml is parsed as JSON.
C28_Witness ==
    /\ ColumnsParsed
    /\ DeclaresXml
    /\ StartsWithBrace
    /\ catalog.result.format = "json"
    /\ catalog.result.exc = "none"
    /\ Len(catalog.result.columns) = 2

\* The body is not a well-formed catalog: it is empty or only whitespace,
\* cut-off JSON, JSON that is not an object of objects, or broken XML.
Malformed ==
    \/ catalog.doc.kind \in {"empty", "json_truncated", "json_array", "xml_invalid"}
    \/ /\ catalog.doc.kind = "json_object"
       /\ \E i \in 1..Len(catalog.doc.items) : ~catalog.doc.items[i].object

\* C29: malformed input (truncated or invalid JSON, JSON that is not an
\* object of objects, invalid XML, an empty or whitespace-only body) makes
\* parsing raise a parse error, never return an empty or partial list; the
\* empty list is returned only for a well-formed catalog without columns.
C29_Original ==
    ColumnsParsed =>
        /\ Malformed => catalog.result.exc = "ValueError"
        /\ (catalog.result.exc = "none" /\ catalog.result.columns = << >>) =>
              (~Malformed /\ catalog.doc.items = << >>)

\* C30: parsing a JSON catalog yields one descriptor per key, in key order,
\* whose id is the key, whose type is the entry's type, and whose
\* aggregationAllowed, groupingAllowed and filteringAllowed are the text
\* "True" or "False" of the entry's boolean, "False" when it is left out.
C30_JsonDescriptors ==
    (ColumnsParsed /\ catalog.result.format = "json" /\ catalog.result.exc = "none") =>
        LET cols == catalog.result.columns
            items == catalog.doc.items
            flag(info, k) == IF k \in DOMAIN info
                             THEN (IF info[k] THEN "True" ELSE "False")
                             ELSE "False"
        IN  /\ Len(cols) = Len(items)
            /\ \A i \in 1..Len(items) :
                  /\ cols[i].id = items[i].key
                  /\ "type" \in DOMAIN items[i].info => cols[i].type = items[i].info.type
                  /\ \A k \in {"aggregationAllowed", "groupingAllowed", "filteringAllowed"} :
                        cols[i][k] = flag(items[i].info, k)

\* The documented example, {"DishSum": {"name": "DishSum", "type": "MONEY",
\* "aggregationAllowed": true}}, followed by a second column.
C30_Witness ==
    /\ ColumnsParsed
    /\ catalog.doc = Doc("json_object", << Entry_("DishSum", TRUE, InfoFull),
                                           Entry_("Dept", TRUE, InfoTagged) >>)
    /\ Len(catalog.result.columns) = 2
    /\ catalog.result.columns[1].id = "DishSum"
    /\ catalog.result.columns[1].type = "MONEY"
    /\ catalog.result.columns[1].aggregationAllowed = "True"
    /\ catalog.result.columns[1].filteringAllowed = "False"
    /\ catalog.result.columns[2].id = "Dept"
    /\ catalog.result.columns[2].groupingAllowed = "True"
    /\ catalog.result.columns[2].tags = "org, dim"

\* The fields every column descriptor is said to carry.
DescriptorFields ==
    {"id", "name", "caption", "type",
     "aggregationAllowed", "groupingAllowed", "filteringAllowed"}

\* C31: every descriptor produced by parsing a JSON catalog and every
\* descriptor produced by parsing an XML catalog carries the same fields: id,
\* name, caption, type and the aggregation-, grouping- and filtering-allowed
\* flags.
C31_Original ==
    (ColumnsParsed /\ catalog.result.exc = "none") =>
        \A i \in 1..Len(catalog.result.columns) :
            DescriptorFields \subseteq DOMAIN catalog.result.columns[i]

\* The JSON half of C31: descriptors of a JSON catalog carry all the fields.
C31_JsonShape ==
    (ColumnsParsed /\ catalog.result.exc = "none" /\ catalog.result.format = "json")
        => C31_Original

\* C32: as long as no write or delete of the storage file has failed, after
\* every operation of the manager (construction, authenticate, validate,
\* refresh_if_needed, logout, a facade request, entering and leaving the
\* with-block) a token held in memory is the token the storage file holds.
C32_MemoryMatchesStorage ==
    (phase = "ready" /\ ~io_failed /\ Truthy(token)) => file = RecordFile(token)

\* A forced login over a loaded token: memory and file both moved from the
\* first token to the second.
C32_Witness ==
    /\ ForcedCall
    /\ op.exc = "none"
    /\ ~io_failed
    /\ op.pre_file = RecordFile(1)
    /\ op.pre_token = 1
    /\ token = 2
    /\ file = RecordFile(2)

\* The calendar weeks the range [dt_from, dt_to) reaches into.
StartedWeeks ==
    IF chunk.dt_from < chunk.dt_to
    THEN WeekOf(chunk.dt_to - 1) - WeekOf(chunk.dt_from) + 1
    ELSE 0

\* main has left the loop: its condition became false or a sub-request raised.
LoopLeft == chunk.pc \in {"done", "raised"}

\* C33: the chunking loop terminates for every overall range. Each pass moves
\* the window start strictly forward, to the next Monday 00:00 or to the
\* overall end; there is at most one sub-request per started calendar week of
\* the range; when the loop ends after a non-empty range the start has
\* reached the overall end; and for overall_from >= overall_to no sub-request
\* is issued at all.
C33_Terminates ==
    /\ <>LoopLeft
    /\ [](/\ \A i \in 1..Len(chunk.requests) :
                /\ chunk.requests[i].week_end > chunk.requests[i].cur
                /\ \/ IsMonday00(chunk.requests[i].week_end)
                   \/ chunk.requests[i].week_end = chunk.dt_to
          /\ Len(chunk.requests) <= StartedWeeks
          /\ (LoopDone /\ chunk.dt_from < chunk.dt_to) => chunk.cur = chunk.dt_to
          /\ chunk.dt_from >= chunk.dt_to => chunk.requests = << >>)

\* A range that reaches into three calendar weeks, run to its end with three
\* sub-requests.
C33_Witness ==
    /\ LoopDone
    /\ StartedWeeks = 3
    /\ Len(chunk.requests) = 3
    /\ chunk.cur = chunk.dt_to

====
